---- MODULE Spec2Model ----
(***************************************************************************)
(* Library circulation manager (src/lms.py): members, books and borrow     *)
(* records kept in three tables of a relational store, and the service     *)
(* functions that read and write them.  Each service function is one       *)
(* action; its storage round trips happen in the order of the source, and  *)
(* the parameter f names the round trip that raises (0: none does).        *)
(***************************************************************************)
EXTENDS Integers, Sequences, FiniteSets, TLC

\* ---------------------------------------------------------------- bounds
MaxMembers == 2      \* member ids the store generates: 1..MaxMembers
MaxBooks   == 1      \* book ids the store generates: 1..MaxBooks
MaxRecords == 2      \* borrow records the store accepts
MaxStock   == 2      \* largest stock passed to add_book / update_book_stock
MaxLog     == 4      \* calls recorded in a traced run
MaxProcs   == 2      \* calls in flight at the same time
MaxLimit   == 2      \* largest limit passed to top_borrowed_books, besides the default
MaxTopRecords == 6   \* longest record list that top_borrowed_books ranks
MaxTime    == 3      \* last day on which a record is stamped
MaxDays    == 2      \* largest days passed to overdue_members, besides the default

\* ------------------------------------------------------------ input sets
None      == 0                       \* a null column (return_date IS NULL)
DefaultStock == 1                    \* add_book(title, author, category, stock=1)
Names     == {"Ann"}
Emails    == {"ann@lib.org"}
Titles    == {"Dune"}
Authors   == {"Herbert"}
Categories == {"SciFi"}
NoArg     == "<None>"                \* Python's None as the value of a name or an email
NameArgs  == {NoArg, "", "Bob"}       \* update_member(member_id, name=None, email=None)
EmailArgs == {NoArg, "", "bob@lib.org"}
MemberIds == 1..MaxMembers
BookIds   == 1..MaxBooks
StockInputs == 0..MaxStock          \* books start with a stock that is not negative
DefaultLimit == 5                    \* top_borrowed_books(limit=5)
Limits    == (0..MaxLimit) \cup {DefaultLimit}
TopBookIds == {1, 2, 3}               \* the books A, B and C of a ranking
DefaultDays == 14                    \* overdue_members(days=14)
Days      == (0..MaxDays) \cup {DefaultDays}

VARIABLES
    members,          \* table members: sequence of rows
    books,            \* table books: sequence of rows
    borrow_records,   \* table borrow_records: sequence of rows
    nextMemberId,     \* the store's generators of member_id, book_id, record_id
    nextBookId,
    nextRecordId,
    now,              \* datetime.now(); the clock stands still in the runs below
    lastCall,         \* the most recent call: function, arguments, what it returned
    log,              \* in a traced run: every call so far, with the tables before it
    tracing,          \* whether this run is traced
    report,           \* the most recent report: its argument and the rows it returned
    procs             \* the calls in flight: position and local variables of each

vars == <<members, books, borrow_records, nextMemberId, nextBookId,
          nextRecordId, now, lastCall, log, tracing, report, procs>>

tables == <<members, books, borrow_records, nextMemberId, nextBookId, nextRecordId>>

\* ------------------------------------------------------- storage gateway
\* sb.table("books").select("*").eq("book_id", b).execute().data
BooksById(bs, b) == SelectSeq(bs, LAMBDA r : r.book_id = b)

\* sb.table("members").select("*").eq("member_id", m).execute().data
MembersById(ms, m) == SelectSeq(ms, LAMBDA r : r.member_id = m)

\* sb.table("books").update({"stock": s}).eq("book_id", b).execute()
SetStock(bs, b, s) ==
    [i \in DOMAIN bs |-> IF bs[i].book_id = b THEN [bs[i] EXCEPT !.stock = s] ELSE bs[i]]

\* sb.table("borrow_records").update({"return_date": t}).eq("record_id", id).execute()
\* an update that also reaches the records inserted after the one selected
SetReturnDate_later(rs, id, t) ==
    [i \in DOMAIN rs |-> IF rs[i].record_id >= id THEN [rs[i] EXCEPT !.return_date = t]
                                                  ELSE rs[i]]

SetReturnDate(rs, id, t) ==
    [i \in DOMAIN rs |-> IF rs[i].record_id = id THEN [rs[i] EXCEPT !.return_date = t]
                                                 ELSE rs[i]]

\* sb.table(t).insert(row).execute()
Insert(t, row) == Append(t, row)

\* ------------------------------------------------------ filters and steps
\* a delete_member that is refused by any loan of the member, returned or not
ActiveOfMember_any(r, m) == r.member_id = m

\* .eq("member_id", m).is_("return_date", None)
ActiveOfMember(r, m) == r.member_id = m /\ r.return_date = None

\* a delete_book that looks for the returned loans of the book
ActiveOfBook_returned(r, b) == r.book_id = b /\ r.return_date # None

\* .eq("book_id", b).is_("return_date", None)
ActiveOfBook(r, b) == r.book_id = b /\ r.return_date = None

\* a return_book that forgets the member_id filter
ActiveLoan_anyMember(r, m, b) == r.book_id = b /\ r.return_date = None

\* a select that forgets is_("return_date", None)
ActiveLoan_returned(r, m, b) == r.member_id = m /\ r.book_id = b

\* .eq("member_id", m).eq("book_id", b).is_("return_date", None)
ActiveLoan(r, m, b) == r.member_id = m /\ r.book_id = b /\ r.return_date = None

\* a stock check that is off by one
OutOfStock_lax(s) == s < 0

\* book[0]['stock'] < 1
OutOfStock(s) == s < 1

\* a borrow that takes two copies
BorrowStock_two(s) == s - 2

\* a borrow that leaves the stock as it is
BorrowStock_same(s) == s

\* book[0]['stock'] - 1
BorrowStock(s) == s - 1

\* a return that puts two copies back
ReturnStock_two(s) == s + 2

\* a return that puts no copy back
ReturnStock_same(s) == s

\* book['stock'] + 1
ReturnStock(s) == s + 1

\* a call and what it returned: a message, "data" with the number of rows of
\* resp.data, or "raise" when an exception left the function
Call(op, m, b, res, rows) ==
    [op |-> op, member_id |-> m, book_id |-> b, result |-> res, rows |-> Len(rows)]

\* what a report returned: top_borrowed_books(arg) or overdue_members(arg)
Report(arg, rows) == [arg |-> arg, rows |-> rows]

NoReport == Report(0, <<>>)

\* a call returned rows: remember it, and in a traced run append it to the log
ReturnedRows(c, rows) ==
    /\ tracing => Len(log) < MaxLog
    /\ lastCall' = c
    /\ report' = rows
    /\ log' = IF tracing
              THEN Append(log, [call |-> c, books |-> books,
                                borrow_records |-> borrow_records,
                                members |-> members])
              ELSE log
    /\ UNCHANGED <<tracing, procs>>

\* a call returned, with no rows of a report
Returned(c) == ReturnedRows(c, NoReport) /\ UNCHANGED now

NoCall == Call("none", 0, 0, "", <<>>)

\* ----------------------------------------------------------------- state
Init ==
    /\ members = <<>>
    /\ books = <<>>
    /\ borrow_records = <<>>
    /\ nextMemberId = 1
    /\ nextBookId = 1
    /\ nextRecordId = 1
    /\ now = 1
    /\ lastCall = NoCall
    /\ log = <<>>
    /\ tracing = FALSE
    /\ report = NoReport
    /\ procs = <<>>

\* ---------------------------------------------------------------- members
add_member(name, email) ==
    LET row == [member_id |-> nextMemberId, name |-> name, email |-> email]
    IN  /\ nextMemberId <= MaxMembers
        /\ members' = Insert(members, row)
        /\ nextMemberId' = nextMemberId + 1
        /\ UNCHANGED <<books, borrow_records, nextBookId, nextRecordId>>
        /\ Returned(Call("add_member", row.member_id, 0, "data", <<row>>))

delete_member(member_id) ==
    LET borrowed == SelectSeq(borrow_records, LAMBDA r : ActiveOfMember(r, member_id))
        gone     == MembersById(members, member_id)
    IN  IF borrowed # <<>>
        THEN /\ UNCHANGED tables
             /\ Returned(Call("delete_member", member_id, 0, "Cannot delete", <<>>))
        ELSE /\ members' = SelectSeq(members, LAMBDA r : r.member_id # member_id)
             /\ UNCHANGED <<books, borrow_records, nextMemberId, nextBookId, nextRecordId>>
             /\ Returned(Call("delete_member", member_id, 0, "data", gone))

\* ------------------------------------------------------------------ books
add_book(title, author, category, stock) ==
    LET row == [book_id |-> nextBookId, title |-> title, author |-> author,
                category |-> category, stock |-> stock]
    IN  /\ nextBookId <= MaxBooks
        /\ books' = Insert(books, row)
        /\ nextBookId' = nextBookId + 1
        /\ UNCHANGED <<members, borrow_records, nextMemberId, nextRecordId>>
        /\ Returned(Call("add_book", 0, row.book_id, "data", <<row>>))

update_book_stock(book_id, stock) ==
    LET after == SetStock(books, book_id, stock)
    IN  /\ books' = after
        /\ UNCHANGED <<members, borrow_records, nextMemberId, nextBookId, nextRecordId>>
        /\ Returned(Call("update_book_stock", 0, book_id, "data",
                         BooksById(after, book_id)))

delete_book(book_id) ==
    LET borrowed == SelectSeq(borrow_records, LAMBDA r : ActiveOfBook(r, book_id))
        gone     == BooksById(books, book_id)
    IN  IF borrowed # <<>>
        THEN /\ UNCHANGED tables
             /\ Returned(Call("delete_book", 0, book_id, "Cannot delete", <<>>))
        ELSE /\ books' = SelectSeq(books, LAMBDA r : r.book_id # book_id)
             /\ UNCHANGED <<members, borrow_records, nextMemberId, nextBookId, nextRecordId>>
             /\ Returned(Call("delete_book", 0, book_id, "data", gone))

\* ---------------------------------------------------------- borrow / return
borrow_book(member_id, book_id, f) ==
    LET book   == BooksById(books, book_id)
        bought == SetStock(books, book_id, BorrowStock(book[1].stock))
        row    == [record_id |-> nextRecordId, member_id |-> member_id,
                   book_id |-> book_id, borrow_date |-> now, return_date |-> None]
        c(res) == Call("borrow_book", member_id, book_id, res, <<>>)
    IN  IF f = 1
        THEN UNCHANGED tables /\ Returned(c("raise"))
        ELSE IF book = <<>>
        THEN f = 0 /\ UNCHANGED tables /\ Returned(c("Book not found."))
        ELSE IF OutOfStock(book[1].stock)
        THEN f = 0 /\ UNCHANGED tables /\ Returned(c("Book not available."))
        ELSE IF f = 2
        THEN UNCHANGED tables /\ Returned(c("Error"))
        ELSE IF f = 3
        THEN /\ books' = bought
             /\ UNCHANGED <<members, borrow_records, nextMemberId, nextBookId, nextRecordId>>
             /\ Returned(c("Error"))
        ELSE /\ nextRecordId <= MaxRecords
             /\ books' = bought
             /\ borrow_records' = Insert(borrow_records, row)
             /\ nextRecordId' = nextRecordId + 1
             /\ UNCHANGED <<members, nextMemberId, nextBookId>>
             /\ Returned(c("borrowed"))

return_book(member_id, book_id, f) ==
    LET record    == SelectSeq(borrow_records, LAMBDA r : ActiveLoan(r, member_id, book_id))
        record_id == record[1].record_id
        marked    == SetReturnDate(borrow_records, record_id, now)
        book      == BooksById(books, book_id)
        restocked == SetStock(books, book_id, ReturnStock(book[1].stock))
        c(res)    == Call("return_book", member_id, book_id, res, <<>>)
    IN  IF f = 1
        THEN UNCHANGED tables /\ Returned(c("raise"))
        ELSE IF record = <<>>
        THEN f = 0 /\ UNCHANGED tables /\ Returned(c("No active borrow record found."))
        ELSE IF f = 2
        THEN UNCHANGED tables /\ Returned(c("Error"))
        ELSE IF f = 3 \/ book = <<>> \/ f = 4
        THEN /\ borrow_records' = marked
             /\ UNCHANGED <<members, books, nextMemberId, nextBookId, nextRecordId>>
             /\ Returned(c("Error"))
        ELSE /\ borrow_records' = marked
             /\ books' = restocked
             /\ UNCHANGED <<members, nextMemberId, nextBookId, nextRecordId>>
             /\ Returned(c("returned"))

\* --------------------------------------------------------- specifications
\* The store answers every round trip.
AddMember      == \E n \in Names, e \in Emails : add_member(n, e)
DeleteMember   == \E m \in MemberIds : delete_member(m)
AddBook        == \E t \in Titles, a \in Authors, c \in Categories, s \in StockInputs :
                      add_book(t, a, c, s)
UpdateBookStock == \E b \in BookIds, s \in StockInputs : update_book_stock(b, s)
DeleteBook     == \E b \in BookIds : delete_book(b)
BorrowBook     == \E m \in MemberIds, b \in BookIds : borrow_book(m, b, 0)
ReturnBook     == \E m \in MemberIds, b \in BookIds : return_book(m, b, 0)

Next ==
    \/ AddMember
    \/ DeleteMember
    \/ AddBook
    \/ UpdateBookStock
    \/ DeleteBook
    \/ BorrowBook
    \/ ReturnBook

Spec == Init /\ [][Next]_vars

\* A store that holds the members and the books, the stocks of the books
\* being one of stocks, and no borrow record yet.
InitStore(traced, stocks) ==
    /\ members = [i \in MemberIds |-> [member_id |-> i, name |-> "Ann",
                                      email |-> "ann@lib.org"]]
    /\ \E st \in stocks :
          books = [i \in BookIds |-> [book_id |-> i, title |-> "Dune",
                                      author |-> "Herbert", category |-> "SciFi",
                                      stock |-> st[i]]]
    /\ borrow_records = <<>>
    /\ nextMemberId = MaxMembers + 1
    /\ nextBookId = MaxBooks + 1
    /\ nextRecordId = 1
    /\ now = 1
    /\ lastCall = NoCall
    /\ log = <<>>
    /\ tracing = traced
    /\ report = NoReport
    /\ procs = <<>>

\* Borrowing and returning, one call at a time.
InitLoan == InitStore(FALSE, [BookIds -> StockInputs])

NextLoan ==
    \/ BorrowBook
    \/ ReturnBook

SpecLoan == InitLoan /\ [][NextLoan]_vars

\* Borrowing and returning while any one storage round trip of a call may
\* raise.
BorrowBookF == \E m \in MemberIds, b \in BookIds, f \in 0..3 : borrow_book(m, b, f)
ReturnBookF == \E m \in MemberIds, b \in BookIds, f \in 0..4 : return_book(m, b, f)

InitFail == InitStore(FALSE, [BookIds -> StockInputs])

NextFail ==
    \/ BorrowBookF
    \/ ReturnBookF

SpecFail == InitFail /\ [][NextFail]_vars

\* A traced run of borrows and returns: every call is recorded in the log.
\* The books were added with the same stock.
InitScen == InitStore(TRUE, {[b \in BookIds |-> s] : s \in StockInputs})

NextScen ==
    \/ BorrowBook
    \/ ReturnBook

SpecScen == InitScen /\ [][NextScen]_vars

\* A traced run of borrows, returns and deletes.  The books were added with
\* the default stock.
InitDel == InitStore(TRUE, {[b \in BookIds |-> DefaultStock]})

NextDel ==
    \/ BorrowBook
    \/ ReturnBook
    \/ DeleteMember
    \/ DeleteBook

SpecDel == InitDel /\ [][NextDel]_vars

\* ---------------------------------------------------------------- reports
\* lines 111-114: borrow_counts, a dict, as the sequence of its items in
\* insertion order (the order in which the book ids are first seen)
BumpCount(d, b) ==
    IF \E i \in DOMAIN d : d[i].book_id = b
    THEN [i \in DOMAIN d |-> IF d[i].book_id = b
                             THEN [d[i] EXCEPT !.borrow_count = @ + 1] ELSE d[i]]
    ELSE Append(d, [book_id |-> b, borrow_count |-> 1])

RECURSIVE BorrowCounts(_)
BorrowCounts(rs) ==
    IF rs = <<>> THEN <<>>
    ELSE BumpCount(BorrowCounts(SubSeq(rs, 1, Len(rs) - 1)), rs[Len(rs)].book_id)

\* a sort that puts an item before the items of the same count sorted so far
InsertDesc_before(s, x) ==
    LET k == Cardinality({i \in DOMAIN s : s[i].borrow_count > x.borrow_count})
    IN  SubSeq(s, 1, k) \o <<x>> \o SubSeq(s, k + 1, Len(s))

\* sorted(..., reverse=True) is stable: an item goes after the items sorted so
\* far whose count is the same or larger
InsertDesc(s, x) ==
    LET k == Cardinality({i \in DOMAIN s : s[i].borrow_count >= x.borrow_count})
    IN  SubSeq(s, 1, k) \o <<x>> \o SubSeq(s, k + 1, Len(s))

\* line 115: sorted(borrow_counts, key=lambda x: borrow_counts[x], reverse=True)
RECURSIVE SortedDesc(_)
SortedDesc(d) ==
    IF d = <<>> THEN <<>>
    ELSE InsertDesc(SortedDesc(SubSeq(d, 1, Len(d) - 1)), d[Len(d)])

\* line 115: [:limit], for a limit that is not negative
Take(s, limit) == SubSeq(s, 1, IF limit < Len(s) THEN limit ELSE Len(s))

\* lines 116-120: each book's row with its count
WithBorrowCount(top_books_ids, bs) ==
    [i \in DOMAIN top_books_ids |->
        LET book == BooksById(bs, top_books_ids[i].book_id)[1]
        IN  [book_id |-> book.book_id, title |-> book.title,
             author |-> book.author, category |-> book.category,
             stock |-> book.stock,
             borrow_count |-> top_books_ids[i].borrow_count]]

\* lines 108-121; data[0] of a book that is not in books raises IndexError,
\* which nothing catches
top_borrowed_books(limit) ==
    LET top_books_ids == Take(SortedDesc(BorrowCounts(borrow_records)), limit)
        top_books == WithBorrowCount(top_books_ids, books)
    IN  /\ UNCHANGED <<tables, now>>
        /\ IF \E i \in DOMAIN top_books_ids :
                  BooksById(books, top_books_ids[i].book_id) = <<>>
           THEN ReturnedRows(Call("top_borrowed_books", 0, 0, "raise", <<>>),
                             Report(limit, <<>>))
           ELSE ReturnedRows(Call("top_borrowed_books", 0, 0, "data", top_books),
                             Report(limit, top_books))

TopBorrowedBooks == \E limit \in Limits : top_borrowed_books(limit)

\* Borrowing, returning, deleting books and asking for the top books.
InitReport == InitStore(FALSE, [BookIds -> StockInputs])

NextReport ==
    \/ BorrowBook
    \/ ReturnBook
    \/ DeleteBook
    \/ TopBorrowedBooks

SpecReport == InitReport /\ [][NextReport]_vars

\* top_borrowed_books over the record lists of up to MaxTopRecords records of
\* the books TopBookIds; none or the older half of the records returned.
InitTop ==
    /\ members = [i \in MemberIds |-> [member_id |-> i, name |-> "Ann",
                                      email |-> "ann@lib.org"]]
    /\ books = [i \in TopBookIds |-> [book_id |-> i, title |-> "Dune",
                                      author |-> "Herbert", category |-> "SciFi",
                                      stock |-> DefaultStock]]
    /\ \E n \in 0..MaxTopRecords :
          \E ids \in [1..n -> TopBookIds], k \in {0, n \div 2} :
             borrow_records = [i \in 1..n |->
                 [record_id |-> i, member_id |-> 1, book_id |-> ids[i],
                  borrow_date |-> 1, return_date |-> IF i <= k THEN 1 ELSE None]]
    /\ nextMemberId = MaxMembers + 1
    /\ nextBookId = Cardinality(TopBookIds) + 1
    /\ nextRecordId = Len(borrow_records) + 1
    /\ now = 1
    /\ lastCall = NoCall
    /\ log = <<>>
    /\ tracing = FALSE
    /\ report = NoReport
    /\ procs = <<>>

NextTop ==
    \/ TopBorrowedBooks

SpecTop == InitTop /\ [][NextTop]_vars

\* a filter that forgets is_("return_date", None)
Overdue_returned(r, overdue_date) == r.borrow_date < overdue_date

\* line 126: .is_("return_date", None).lt("borrow_date", overdue_date)
Overdue(r, overdue_date) == r.return_date = None /\ r.borrow_date < overdue_date

\* line 126: select("member_id, book_id, borrow_date")
Loan(r) == [member_id |-> r.member_id, book_id |-> r.book_id,
            borrow_date |-> r.borrow_date]

\* lines 123-127; dates are whole days of one clock, the store's and the
\* program's
overdue_members(days) ==
    LET overdue_date == now - days
        overdue == SelectSeq(borrow_records, LAMBDA r : Overdue(r, overdue_date))
        records == [i \in DOMAIN overdue |-> Loan(overdue[i])]
    IN  /\ UNCHANGED <<tables, now>>
        /\ ReturnedRows(Call("overdue_members", 0, 0, "data", records),
                        Report(days, records))

OverdueMembers == \E days \in Days : overdue_members(days)

\* overdue_members over the record lists of up to MaxRecords records: a record
\* is stamped when it is inserted, so the borrow dates do not decrease down
\* the list, a return is not before its borrow, and the call comes after
\* every stamp.
InitOverdue ==
    /\ members = [i \in MemberIds |-> [member_id |-> i, name |-> "Ann",
                                      email |-> "ann@lib.org"]]
    /\ books = [i \in BookIds |-> [book_id |-> i, title |-> "Dune",
                                   author |-> "Herbert", category |-> "SciFi",
                                   stock |-> DefaultStock]]
    /\ \E n \in 0..MaxRecords :
          \E bd \in [1..n -> 1..MaxTime], rd \in [1..n -> {None} \cup (1..MaxTime)] :
             /\ \A i \in 1..n : rd[i] # None => bd[i] <= rd[i]
             /\ \A i, j \in 1..n : i < j => bd[i] <= bd[j]
             /\ borrow_records = [i \in 1..n |->
                   [record_id |-> i, member_id |-> ((i - 1) % MaxMembers) + 1,
                    book_id |-> ((i - 1) % MaxBooks) + 1,
                    borrow_date |-> bd[i], return_date |-> rd[i]]]
    /\ now \in 2..(MaxTime + 1)
    /\ \A i \in DOMAIN borrow_records :
          /\ borrow_records[i].borrow_date < now
          /\ borrow_records[i].return_date < now
    /\ nextMemberId = MaxMembers + 1
    /\ nextBookId = MaxBooks + 1
    /\ nextRecordId = Len(borrow_records) + 1
    /\ lastCall = NoCall
    /\ log = <<>>
    /\ tracing = FALSE
    /\ report = NoReport
    /\ procs = <<>>

NextOverdue ==
    \/ OverdueMembers

SpecOverdue == InitOverdue /\ [][NextOverdue]_vars

\* ------------------------------------------------------- the passing of time
\* a day passes between two calls: datetime.now() of a later call is later
Tick ==
    /\ now < MaxTime
    /\ now' = now + 1
    /\ UNCHANGED <<tables, lastCall, log, tracing, report, procs>>

\* The life of the records of two members and one book: loans with storage
\* round trips that may fail, deletions, and days passing in between.
LifeMemberIds == {1, 2}
LifeBookIds == {1}
BorrowLife == \E m \in LifeMemberIds, b \in LifeBookIds, f \in 0..3 : borrow_book(m, b, f)
ReturnLife == \E m \in LifeMemberIds, b \in LifeBookIds, f \in 0..4 : return_book(m, b, f)
DeleteMemberLife == \E m \in LifeMemberIds : delete_member(m)
DeleteBookLife == \E b \in LifeBookIds : delete_book(b)

InitLife == InitStore(FALSE, {[b \in BookIds |-> DefaultStock]})

NextLife ==
    \/ BorrowLife
    \/ ReturnLife
    \/ DeleteMemberLife
    \/ DeleteBookLife
    \/ Tick

SpecLife == InitLife /\ [][NextLife]_vars

\* ---------------------------------------------------------- update_member
\* a test that takes the empty string for a value
Truthy_empty(v) == v # NoArg

\* lines 23-24: if name: / if email: (None and "" are false)
Truthy(v) == v # NoArg /\ v # ""

\* lines 20-26; what the store does with an empty payload is not in src/: the
\* update either matches the rows and changes nothing, or is refused
update_member(member_id, name, email) ==
    LET updated(r) == [r EXCEPT !.name = IF Truthy(name) THEN name ELSE @,
                                !.email = IF Truthy(email) THEN email ELSE @]
        changed == [i \in DOMAIN members |->
                       IF members[i].member_id = member_id THEN updated(members[i])
                                                           ELSE members[i]]
        arg == [name |-> name, email |-> email]
        c(res, rows) == Call("update_member", member_id, 0, res, rows)
    IN  /\ UNCHANGED <<books, borrow_records, nextMemberId, nextBookId, nextRecordId, now>>
        /\ IF ~Truthy(name) /\ ~Truthy(email)
           THEN /\ UNCHANGED members
                /\ \/ ReturnedRows(c("data", MembersById(members, member_id)),
                                   Report(arg, MembersById(members, member_id)))
                   \/ ReturnedRows(c("raise", <<>>), Report(arg, <<>>))
           ELSE /\ members' = changed
                /\ ReturnedRows(c("data", MembersById(changed, member_id)),
                                Report(arg, MembersById(changed, member_id)))

UpdateMember == \E m \in MemberIds, n \in NameArgs, e \in EmailArgs : update_member(m, n, e)

\* Members updated and deleted while books are borrowed.
InitMember == InitStore(FALSE, {[b \in BookIds |-> DefaultStock]})

NextMember ==
    \/ UpdateMember
    \/ DeleteMember
    \/ BorrowBook

SpecMember == InitMember /\ [][NextMember]_vars

\* ------------------------------------------------------- calls in flight
\* borrow_book and return_book one storage round trip at a time, so that the
\* round trips of calls in flight interleave.  A process makes one call.
Procs == 1..MaxProcs

Idle == [pc |-> "idle", op |-> "none", member_id |-> 0, book_id |-> 0,
         stock |-> 0, record_id |-> 0, result |-> ""]

\* the tables at the start of the run, kept as the first entry of the log
InitConc ==
    /\ members = [i \in MemberIds |-> [member_id |-> i, name |-> "Ann",
                                      email |-> "ann@lib.org"]]
    /\ \E st \in [BookIds -> StockInputs] :
          books = [i \in BookIds |-> [book_id |-> i, title |-> "Dune",
                                      author |-> "Herbert", category |-> "SciFi",
                                      stock |-> st[i]]]
    /\ \/ borrow_records = <<>>
       \/ \E m \in MemberIds, b \in BookIds :
             borrow_records = <<[record_id |-> 1, member_id |-> m, book_id |-> b,
                                 borrow_date |-> 1, return_date |-> None]>>
    /\ nextMemberId = MaxMembers + 1
    /\ nextBookId = MaxBooks + 1
    /\ nextRecordId = Len(borrow_records) + 1
    /\ now = 1
    /\ lastCall = NoCall
    /\ log = <<[call |-> NoCall, books |-> books, borrow_records |-> borrow_records,
                members |-> members]>>
    /\ tracing = FALSE
    /\ report = NoReport
    /\ procs = [p \in Procs |-> Idle]

Others == <<now, lastCall, log, tracing, report>>

\* borrow_book(member_id, book_id) is called
CallBorrow(p, member_id, book_id) ==
    /\ procs[p].pc = "idle"
    /\ procs' = [procs EXCEPT ![p] = [Idle EXCEPT !.pc = "select", !.op = "borrow_book",
                                      !.member_id = member_id, !.book_id = book_id]]
    /\ UNCHANGED <<tables, Others>>

\* lines 81-85: the select of the book and the stock check
BorrowSelect(p) ==
    LET book == BooksById(books, procs[p].book_id)
    IN  /\ procs[p].op = "borrow_book" /\ procs[p].pc = "select"
        /\ procs' = [procs EXCEPT ![p] =
              IF book = <<>>
              THEN [@ EXCEPT !.pc = "done", !.result = "Book not found."]
              ELSE IF OutOfStock(book[1].stock)
              THEN [@ EXCEPT !.pc = "done", !.result = "Book not available."]
              ELSE [@ EXCEPT !.pc = "update", !.stock = book[1].stock]]
        /\ UNCHANGED <<tables, Others>>

\* line 87: the update of the stock from the value read at line 81
BorrowUpdate(p) ==
    /\ procs[p].op = "borrow_book" /\ procs[p].pc = "update"
    /\ books' = SetStock(books, procs[p].book_id, BorrowStock(procs[p].stock))
    /\ procs' = [procs EXCEPT ![p].pc = "insert"]
    /\ UNCHANGED <<members, borrow_records, nextMemberId, nextBookId, nextRecordId, Others>>

\* lines 88-89: the insert of the borrow record
BorrowInsert(p) ==
    /\ procs[p].op = "borrow_book" /\ procs[p].pc = "insert"
    /\ nextRecordId <= MaxRecords
    /\ borrow_records' = Insert(borrow_records,
          [record_id |-> nextRecordId, member_id |-> procs[p].member_id,
           book_id |-> procs[p].book_id, borrow_date |-> now, return_date |-> None])
    /\ nextRecordId' = nextRecordId + 1
    /\ procs' = [procs EXCEPT ![p].pc = "done", ![p].result = "borrowed"]
    /\ UNCHANGED <<members, books, nextMemberId, nextBookId, Others>>

\* return_book(member_id, book_id) is called
CallReturn(p, member_id, book_id) ==
    /\ procs[p].pc = "idle"
    /\ procs' = [procs EXCEPT ![p] = [Idle EXCEPT !.pc = "select", !.op = "return_book",
                                      !.member_id = member_id, !.book_id = book_id]]
    /\ UNCHANGED <<tables, Others>>

\* lines 95-98: the select of the active record
ReturnSelect(p) ==
    LET record == SelectSeq(borrow_records,
                      LAMBDA r : ActiveLoan(r, procs[p].member_id, procs[p].book_id))
    IN  /\ procs[p].op = "return_book" /\ procs[p].pc = "select"
        /\ procs' = [procs EXCEPT ![p] =
              IF record = <<>>
              THEN [@ EXCEPT !.pc = "done", !.result = "No active borrow record found."]
              ELSE [@ EXCEPT !.pc = "mark", !.record_id = record[1].record_id]]
        /\ UNCHANGED <<tables, Others>>

\* line 100: the update of return_date
ReturnMark(p) ==
    /\ procs[p].op = "return_book" /\ procs[p].pc = "mark"
    /\ borrow_records' = SetReturnDate(borrow_records, procs[p].record_id, now)
    /\ procs' = [procs EXCEPT ![p].pc = "fetch"]
    /\ UNCHANGED <<members, books, nextMemberId, nextBookId, nextRecordId, Others>>

\* line 101: the select of the book; data[0] of no row raises into the except
ReturnFetch(p) ==
    LET book == BooksById(books, procs[p].book_id)
    IN  /\ procs[p].op = "return_book" /\ procs[p].pc = "fetch"
        /\ procs' = [procs EXCEPT ![p] =
              IF book = <<>>
              THEN [@ EXCEPT !.pc = "done", !.result = "Error"]
              ELSE [@ EXCEPT !.pc = "restock", !.stock = book[1].stock]]
        /\ UNCHANGED <<tables, Others>>

\* lines 102-103: the update of the stock from the value read at line 101
ReturnRestock(p) ==
    /\ procs[p].op = "return_book" /\ procs[p].pc = "restock"
    /\ books' = SetStock(books, procs[p].book_id, ReturnStock(procs[p].stock))
    /\ procs' = [procs EXCEPT ![p].pc = "done", ![p].result = "returned"]
    /\ UNCHANGED <<members, borrow_records, nextMemberId, nextBookId, nextRecordId, Others>>

CallBorrowP    == \E p \in Procs, m \in MemberIds, b \in BookIds : CallBorrow(p, m, b)
BorrowSelectP  == \E p \in Procs : BorrowSelect(p)
BorrowUpdateP  == \E p \in Procs : BorrowUpdate(p)
BorrowInsertP  == \E p \in Procs : BorrowInsert(p)
CallReturnP    == \E p \in Procs, m \in MemberIds, b \in BookIds : CallReturn(p, m, b)
ReturnSelectP  == \E p \in Procs : ReturnSelect(p)
ReturnMarkP    == \E p \in Procs : ReturnMark(p)
ReturnFetchP   == \E p \in Procs : ReturnFetch(p)
ReturnRestockP == \E p \in Procs : ReturnRestock(p)

NextConc ==
    \/ CallBorrowP
    \/ BorrowSelectP
    \/ BorrowUpdateP
    \/ BorrowInsertP
    \/ CallReturnP
    \/ ReturnSelectP
    \/ ReturnMarkP
    \/ ReturnFetchP
    \/ ReturnRestockP

SpecConc == InitConc /\ [][NextConc]_vars

\* ------------------------------------------------------------- vocabulary
HasBook(bs, b)   == \E i \in DOMAIN bs : bs[i].book_id = b
StockOf(bs, b)   == bs[CHOOSE i \in DOMAIN bs : bs[i].book_id = b].stock
HasMember(ms, m) == \E i \in DOMAIN ms : ms[i].member_id = m
IsActive(r)      == r.return_date = None
ActiveIdx(rs, m, b) ==
    {i \in DOMAIN rs : rs[i].member_id = m /\ rs[i].book_id = b /\ IsActive(rs[i])}
MemberBusy(rs, m) == \E i \in DOMAIN rs : rs[i].member_id = m /\ IsActive(rs[i])
BookBusy(rs, b)   == \E i \in DOMAIN rs : rs[i].book_id = b /\ IsActive(rs[i])
\* the records of rs that are active in rs and returned in rs2
NewlyReturned(rs, rs2) ==
    {i \in DOMAIN rs : i \in DOMAIN rs2 /\ IsActive(rs[i]) /\ ~IsActive(rs2[i])}
Last    == log[Len(log)]
IsCall(c, op, m, b) == c.op = op /\ c.member_id = m /\ c.book_id = b

\* ----------------------------------------------------------------- claims
\* C1: from books whose stock is not negative, after any sequence of
\* borrow_book and return_book calls every book's stock is >= 0.
C1_StockNonNegative == \A i \in DOMAIN books : books[i].stock >= 0

\* a borrow took the last copy
C1_Witness ==
    /\ lastCall.op = "borrow_book" /\ lastCall.result = "borrowed"
    /\ HasBook(books, lastCall.book_id) /\ StockOf(books, lastCall.book_id) = 0

\* C2: borrow_book on an existing book whose stock is 0 returns "Book not
\* available." and leaves the book's stock and the borrow records as they were.
C2_OutOfStockNoMutation ==
    [][(/\ lastCall'.op = "borrow_book"
        /\ HasBook(books, lastCall'.book_id)
        /\ StockOf(books, lastCall'.book_id) = 0)
       => (/\ lastCall'.result = "Book not available."
           /\ books' = books
           /\ borrow_records' = borrow_records)]_vars

C2_Witness ==
    /\ lastCall.op = "borrow_book" /\ lastCall.result = "Book not available."
    /\ HasBook(books, lastCall.book_id) /\ StockOf(books, lastCall.book_id) = 0

\* C3: return_book(m, b) with no active record of (m, b) returns "No active
\* borrow record found." and changes no return_date and no stock, also when
\* another member holds the book or m has returned it before.
C3_ReturnNotFoundNoMutation ==
    [][(/\ lastCall'.op = "return_book"
        /\ ActiveIdx(borrow_records, lastCall'.member_id, lastCall'.book_id) = {})
       => (/\ lastCall'.result = "No active borrow record found."
           /\ borrow_records' = borrow_records
           /\ books' = books)]_vars

C3_Witness ==
    /\ lastCall.op = "return_book"
    /\ lastCall.result = "No active borrow record found."
    /\ \E i, j \in DOMAIN borrow_records :
          /\ borrow_records[i].book_id = lastCall.book_id
          /\ borrow_records[i].member_id = lastCall.member_id
          /\ ~IsActive(borrow_records[i])
          /\ borrow_records[j].book_id = lastCall.book_id
          /\ borrow_records[j].member_id # lastCall.member_id
          /\ IsActive(borrow_records[j])

\* C4: a successful borrow_book(m, b) immediately followed by return_book(m, b):
\* the return succeeds, the stock of b is what it was before the borrow, and
\* exactly one record went from active to returned, a record of (m, b).
C4_BorrowThenReturn ==
    (/\ Len(log) >= 2
     /\ log[Len(log) - 1].call.op = "borrow_book"
     /\ log[Len(log) - 1].call.result = "borrowed"
     /\ IsCall(Last.call, "return_book", log[Len(log) - 1].call.member_id,
               log[Len(log) - 1].call.book_id))
    => LET m == Last.call.member_id
           b == Last.call.book_id
           turned == NewlyReturned(Last.borrow_records, borrow_records)
       IN /\ Last.call.result = "returned"
          /\ StockOf(books, b) = StockOf(log[Len(log) - 1].books, b)
          /\ Cardinality(turned) = 1
          /\ \A i \in turned : borrow_records[i].member_id = m
                               /\ borrow_records[i].book_id = b
          /\ Len(borrow_records) = Len(Last.borrow_records)

\* borrow, return, while another loan of the same pair stays active
C4_Witness ==
    /\ Len(log) >= 2
    /\ log[Len(log) - 1].call.op = "borrow_book"
    /\ log[Len(log) - 1].call.result = "borrowed"
    /\ IsCall(Last.call, "return_book", log[Len(log) - 1].call.member_id,
              log[Len(log) - 1].call.book_id)
    /\ Last.call.result = "returned"
    /\ ActiveIdx(borrow_records, Last.call.member_id, Last.call.book_id) # {}

\* C5: delete_member of a member with an active loan, and delete_book of a
\* book with an active loan, return "Cannot delete" and leave the rows of
\* members, books and borrow_records unchanged.
C5_DeleteBlocked ==
    (/\ Len(log) >= 1
     /\ \/ Last.call.op = "delete_member"
           /\ MemberBusy(Last.borrow_records, Last.call.member_id)
        \/ Last.call.op = "delete_book"
           /\ BookBusy(Last.borrow_records, Last.call.book_id))
    => /\ Last.call.result = "Cannot delete"
       /\ members = Last.members
       /\ books = Last.books
       /\ borrow_records = Last.borrow_records

C5_Witness ==
    \E i, j \in DOMAIN log :
        /\ log[i].call.op = "delete_member" /\ log[i].call.result = "Cannot delete"
        /\ HasMember(log[i].members, log[i].call.member_id)
        /\ log[j].call.op = "delete_book" /\ log[j].call.result = "Cannot delete"
        /\ HasBook(log[j].books, log[j].call.book_id)

\* C6: a delete_member (delete_book) that was refused as blocked succeeds once
\* every active loan of the member (book) has been returned: it removes the
\* row, and the returned borrow records that reference it stay.
C6_DeleteAfterReturn ==
    (/\ Len(log) >= 2
     /\ \E i \in 1..(Len(log) - 1) :
           /\ log[i].call.op = Last.call.op
           /\ log[i].call.member_id = Last.call.member_id
           /\ log[i].call.book_id = Last.call.book_id
           /\ log[i].call.result = "Cannot delete"
     /\ \/ Last.call.op = "delete_member"
           /\ HasMember(Last.members, Last.call.member_id)
           /\ ~MemberBusy(Last.borrow_records, Last.call.member_id)
        \/ Last.call.op = "delete_book"
           /\ HasBook(Last.books, Last.call.book_id)
           /\ ~BookBusy(Last.borrow_records, Last.call.book_id))
    => /\ Last.call.result = "data"
       /\ Last.call.op = "delete_member" =>
             /\ Last.call.rows = 1
             /\ ~HasMember(members, Last.call.member_id)
             /\ Len(members) = Len(Last.members) - 1
             /\ books = Last.books
       /\ Last.call.op = "delete_book" =>
             /\ Last.call.rows = 1
             /\ ~HasBook(books, Last.call.book_id)
             /\ Len(books) = Len(Last.books) - 1
             /\ members = Last.members
       /\ borrow_records = Last.borrow_records

\* refused, returned, deleted: the member is gone and the returned record stays
C6_Witness ==
    /\ Len(log) >= 4
    /\ Last.call.op = "delete_member" /\ Last.call.result = "data"
    /\ ~HasMember(members, Last.call.member_id)
    /\ \E i, j \in DOMAIN log :
          /\ i < j /\ j < Len(log)
          /\ IsCall(log[i].call, "delete_member", Last.call.member_id, 0)
          /\ log[i].call.result = "Cannot delete"
          /\ log[j].call.op = "return_book" /\ log[j].call.result = "returned"
          /\ log[j].call.member_id = Last.call.member_id
    /\ \E k \in DOMAIN borrow_records :
          /\ borrow_records[k].member_id = Last.call.member_id
          /\ ~IsActive(borrow_records[k])

\* C7: on a book with stock 1, borrow_book by one member succeeds, borrow_book
\* by a second member is refused as not available, return_book by the first
\* succeeds, and borrow_book by the second then succeeds; a copy put back by
\* a return is there for the borrow that follows it.
C7_Scenario ==
    /\ (/\ Len(log) >= 4
        /\ LET e1 == log[Len(log) - 3].call
               e2 == log[Len(log) - 2].call
               e3 == log[Len(log) - 1].call
           IN /\ e1.op = "borrow_book"
              /\ StockOf(log[Len(log) - 3].books, e1.book_id) = 1
              /\ IsCall(e2, "borrow_book", e2.member_id, e1.book_id)
              /\ e2.member_id # e1.member_id
              /\ IsCall(e3, "return_book", e1.member_id, e1.book_id)
              /\ IsCall(Last.call, "borrow_book", e2.member_id, e1.book_id))
       => /\ log[Len(log) - 3].call.result = "borrowed"
          /\ log[Len(log) - 2].call.result = "Book not available."
          /\ log[Len(log) - 1].call.result = "returned"
          /\ Last.call.result = "borrowed"
    /\ (/\ Len(log) >= 2
        /\ log[Len(log) - 1].call.op = "return_book"
        /\ log[Len(log) - 1].call.result = "returned"
        /\ IsCall(Last.call, "borrow_book", Last.call.member_id,
                  log[Len(log) - 1].call.book_id))
       => Last.call.result = "borrowed"

\* borrow_book(1,1), borrow_book(2,1), return_book(1,1), borrow_book(2,1)
C7_Witness ==
    /\ Len(log) = 4
    /\ StockOf(log[1].books, 1) = 1
    /\ IsCall(log[1].call, "borrow_book", 1, 1) /\ log[1].call.result = "borrowed"
    /\ IsCall(log[2].call, "borrow_book", 2, 1)
    /\ log[2].call.result = "Book not available."
    /\ IsCall(log[3].call, "return_book", 1, 1) /\ log[3].call.result = "returned"
    /\ IsCall(log[4].call, "borrow_book", 2, 1) /\ log[4].call.result = "borrowed"

\* C8: for each pair (member_id, book_id) at most one borrow record is active.
C8_OneActivePerPair ==
    \A i, j \in DOMAIN borrow_records :
        (/\ i # j
         /\ IsActive(borrow_records[i]) /\ IsActive(borrow_records[j])
         /\ borrow_records[i].member_id = borrow_records[j].member_id)
        => borrow_records[i].book_id # borrow_records[j].book_id

\* C9: a borrow_book whose record insert fails returns an error and leaves the
\* stock at its value before the call: no borrow_book reduces a stock without
\* creating a record.
C9_BorrowRollsBack ==
    [][(lastCall'.op = "borrow_book" /\ Len(borrow_records') = Len(borrow_records))
       => books' = books]_vars

\* C10: a return_book that fails after it set return_date does not leave the
\* record marked as returned with the stock not incremented.
C10_ReturnRollsBack ==
    [][(lastCall'.op = "return_book" /\ lastCall'.result = "Error")
       => ~(NewlyReturned(borrow_records, borrow_records') # {} /\ books' = books)]_vars

\* C11: two borrow_book calls in flight on the same book do not both pass the
\* stock check on the same stock value and both succeed, and the borrows do
\* not create more loans of a book than it had stock.
C11_NoDoubleBorrow ==
    /\ \A p, q \in Procs :
          (/\ p # q
           /\ procs[p].op = "borrow_book" /\ procs[q].op = "borrow_book"
           /\ procs[p].book_id = procs[q].book_id
           /\ procs[p].result = "borrowed" /\ procs[q].result = "borrowed")
          => procs[p].stock # procs[q].stock
    /\ \A b \in BookIds :
          (\A p \in Procs : procs[p].op # "return_book")
          => Cardinality({p \in Procs : /\ procs[p].op = "borrow_book"
                                        /\ procs[p].book_id = b
                                        /\ procs[p].result = "borrowed"})
                <= StockOf(log[1].books, b)

\* the stock of book b after a borrow_book(mb, b) and a return_book(mr, b) run
\* one after the other from stock s, held tells whether mr holds b at the start
SerialBorrowReturn(s, held, same) ==
    LET lent == ~OutOfStock(s)
        s1   == IF lent THEN BorrowStock(s) ELSE s
    IN  IF held \/ (lent /\ same) THEN ReturnStock(s1) ELSE s1

SerialReturnBorrow(s, held) ==
    LET s1 == IF held THEN ReturnStock(s) ELSE s
    IN  IF OutOfStock(s1) THEN s1 ELSE BorrowStock(s1)

\* C12: when a borrow_book and a return_book on the same book are in flight
\* together, the stock they leave is the stock of one of the two serial orders.
C12_BorrowReturnSerial ==
    \A p, q \in Procs :
        (/\ procs[p].op = "borrow_book" /\ procs[q].op = "return_book"
         /\ procs[p].book_id = procs[q].book_id
         /\ \A r \in Procs : procs[r].pc = "done" \/ (r # p /\ r # q /\ procs[r].pc = "idle"))
        => LET b    == procs[p].book_id
               s    == StockOf(log[1].books, b)
               held == ActiveIdx(log[1].borrow_records, procs[q].member_id, b) # {}
               same == procs[p].member_id = procs[q].member_id
           IN  StockOf(books, b) \in {SerialBorrowReturn(s, held, same),
                                      SerialReturnBorrow(s, held)}

\* C13: every active borrow record references a member that is in members and
\* a book that is in books.
C13_ActiveRecordsReferToRows ==
    \A i \in DOMAIN borrow_records :
        IsActive(borrow_records[i])
        => /\ HasMember(members, borrow_records[i].member_id)
           /\ HasBook(books, borrow_records[i].book_id)

\* C14: top_borrowed_books does not crash when a book with borrow records is
\* no longer in books; it returns a result.
C14_TopBooksNoCrash ==
    lastCall.op = "top_borrowed_books" => lastCall.result = "data"

\* how often a book occurs in a record list, and where it occurs first
CountOf(rs, b) == Cardinality({i \in DOMAIN rs : rs[i].book_id = b})
FirstSeen(rs, b) ==
    CHOOSE i \in DOMAIN rs :
        /\ rs[i].book_id = b
        /\ \A j \in DOMAIN rs : rs[j].book_id = b => i <= j
Borrowed(rs) == {rs[i].book_id : i \in DOMAIN rs}
RanksBefore(rs, a, b) ==
    \/ CountOf(rs, a) > CountOf(rs, b)
    \/ CountOf(rs, a) = CountOf(rs, b) /\ FirstSeen(rs, a) < FirstSeen(rs, b)

\* C15: top_borrowed_books(limit) counts all the records of a book, active and
\* returned; it returns the limit books of the largest count (all the borrowed
\* books if there are fewer), each once and with its count, in descending
\* order of count, books of the same count in the order in which the record
\* list shows them first; counts {1: 3, 2: 1, 3: 2} and limit 2 give
\* book 1 with 3 and then book 3 with 2.
C15_TopBooksRanking ==
    (lastCall.op = "top_borrowed_books" /\ lastCall.result = "data") =>
        LET rows == report.rows
            rs == borrow_records
        IN  /\ Len(rows) = IF report.arg < Cardinality(Borrowed(rs))
                           THEN report.arg ELSE Cardinality(Borrowed(rs))
            /\ \A i \in DOMAIN rows :
                  /\ rows[i].book_id \in Borrowed(rs)
                  /\ rows[i].borrow_count = CountOf(rs, rows[i].book_id)
            /\ \A i, j \in DOMAIN rows :
                  i < j => RanksBefore(rs, rows[i].book_id, rows[j].book_id)
            /\ \A b \in Borrowed(rs) :
                  (\A i \in DOMAIN rows : rows[i].book_id # b) =>
                      \A i \in DOMAIN rows : RanksBefore(rs, rows[i].book_id, b)
            /\ (/\ report.arg = 2
                /\ CountOf(rs, 1) = 3 /\ CountOf(rs, 2) = 1 /\ CountOf(rs, 3) = 2) =>
                   /\ Len(rows) = 2
                   /\ rows[1].book_id = 1 /\ rows[1].borrow_count = 3
                   /\ rows[2].book_id = 3 /\ rows[2].borrow_count = 2

\* limit 2 over three borrows of book 1, one of book 2 and two of book 3, the
\* book of one borrow seen first, some records returned and some active
C15_Witness ==
    /\ lastCall.op = "top_borrowed_books"
    /\ report.arg = 2
    /\ CountOf(borrow_records, 1) = 3
    /\ CountOf(borrow_records, 2) = 1
    /\ CountOf(borrow_records, 3) = 2
    /\ borrow_records[1].book_id = 2
    /\ \E i \in DOMAIN borrow_records : borrow_records[i].return_date = None
    /\ \E i \in DOMAIN borrow_records : borrow_records[i].return_date # None
    /\ Len(report.rows) = 2
    /\ report.rows[1].book_id = 1
    /\ report.rows[2].book_id = 3

\* the active records that a threshold of days makes overdue
OverdueIdx(days) ==
    {i \in DOMAIN borrow_records :
        /\ borrow_records[i].return_date = None
        /\ borrow_records[i].borrow_date < now - days}
ActiveIdxAll == {i \in DOMAIN borrow_records : borrow_records[i].return_date = None}

\* C16: overdue_members(days) returns one row per active record whose
\* borrow_date is strictly before now - days, and no other row, so never a
\* returned record; with days = 0 it returns every active loan, and with a
\* threshold that is not shorter than the age of any record it returns none.
C16_OverdueRows ==
    lastCall.op = "overdue_members" =>
        LET rows == report.rows
            days == report.arg
        IN  /\ Len(rows) = Cardinality(OverdueIdx(days))
            /\ \A i \in OverdueIdx(days) :
                  Cardinality({k \in DOMAIN rows : rows[k] = Loan(borrow_records[i])})
                  = Cardinality({j \in OverdueIdx(days) :
                        Loan(borrow_records[j]) = Loan(borrow_records[i])})
            /\ \A k \in DOMAIN rows :
                  \E i \in OverdueIdx(days) : rows[k] = Loan(borrow_records[i])
            /\ days = 0 => Len(rows) = Cardinality(ActiveIdxAll)
            /\ (\A i \in DOMAIN borrow_records :
                   now - borrow_records[i].borrow_date <= days) => rows = <<>>

\* a threshold of one day with an old returned record and an old active one:
\* only the active one is reported
C16_Witness ==
    /\ lastCall.op = "overdue_members"
    /\ report.arg = 1
    /\ \E i \in DOMAIN borrow_records :
          /\ borrow_records[i].return_date # None
          /\ borrow_records[i].borrow_date < now - 1
    /\ Len(report.rows) = 1
    /\ OverdueIdx(1) # {}

\* C17: no step removes a borrow record or changes its record_id, member_id,
\* book_id or borrow_date, and a return_date that is set is never changed
\* again, neither back to null nor to the date of a later return_book.
C17_RecordsOnlyGetReturned ==
    [][/\ Len(borrow_records') >= Len(borrow_records)
       /\ \A i \in DOMAIN borrow_records :
             /\ borrow_records'[i].record_id = borrow_records[i].record_id
             /\ borrow_records'[i].member_id = borrow_records[i].member_id
             /\ borrow_records'[i].book_id = borrow_records[i].book_id
             /\ borrow_records'[i].borrow_date = borrow_records[i].borrow_date
             /\ borrow_records[i].return_date # None =>
                   borrow_records'[i].return_date = borrow_records[i].return_date]_vars

\* a record returned on an earlier day, its member deleted since, and one more
\* return_book of its pair
C17_Witness ==
    /\ lastCall.op = "return_book"
    /\ \E i \in DOMAIN borrow_records :
          /\ borrow_records[i].return_date # None
          /\ borrow_records[i].return_date < now
          /\ borrow_records[i].member_id = lastCall.member_id
          /\ borrow_records[i].book_id = lastCall.book_id
          /\ ~HasMember(members, borrow_records[i].member_id)

\* the books at the start of a traced run, with the stock they were created with
CreatedBooks == IF log = <<>> THEN books ELSE log[1].books
ActiveOfBookIdx(rs, b) == {i \in DOMAIN rs : rs[i].book_id = b /\ IsActive(rs[i])}

\* C18: in runs of borrow_book and return_book, one call at a time, with no
\* update_book_stock and no failing storage call, the stock of every book plus
\* the number of its active records is the stock the book was created with.
C18_StockPlusActiveLoans ==
    \A b \in BookIds :
        StockOf(books, b) + Cardinality(ActiveOfBookIdx(borrow_records, b))
        = StockOf(CreatedBooks, b)

\* after a return: one loan of a book still active, one record returned, the
\* stock below the stock the book was created with
C18_Witness ==
    /\ lastCall.op = "return_book"
    /\ lastCall.result = "returned"
    /\ \E b \in BookIds :
          /\ ActiveOfBookIdx(borrow_records, b) # {}
          /\ StockOf(books, b) < StockOf(CreatedBooks, b)
          /\ \E i \in DOMAIN borrow_records :
                borrow_records[i].book_id = b /\ ~IsActive(borrow_records[i])

\* C19: a return_book of a pair with more than one active record succeeds,
\* marks exactly one of them returned, the first one found, adds exactly 1 to
\* the stock of the book and leaves the other records of the pair active: the
\* pair has one active record less than before.
C19_ReturnsOneOfMany ==
    (/\ log # <<>>
     /\ Last.call.op = "return_book"
     /\ Cardinality(ActiveIdx(Last.borrow_records, Last.call.member_id,
                              Last.call.book_id)) > 1)
    => LET m == Last.call.member_id
           b == Last.call.book_id
           before == ActiveIdx(Last.borrow_records, m, b)
           first == CHOOSE i \in before : \A j \in before : i <= j
       IN /\ Last.call.result = "returned"
          /\ NewlyReturned(Last.borrow_records, borrow_records) = {first}
          /\ ActiveIdx(borrow_records, m, b) = before \ {first}
          /\ StockOf(books, b) = StockOf(Last.books, b) + 1
          /\ Len(borrow_records) = Len(Last.borrow_records)

\* a return_book of a pair with two active records
C19_Witness ==
    /\ log # <<>>
    /\ Last.call.op = "return_book"
    /\ Last.call.result = "returned"
    /\ Cardinality(ActiveIdx(Last.borrow_records, Last.call.member_id,
                             Last.call.book_id)) > 1
    /\ ActiveIdx(borrow_records, Last.call.member_id, Last.call.book_id) # {}

\* a value that update_member writes: not None and not the empty string
Supplied(v) == v # NoArg /\ v # ""

\* C20: update_member(id, name, email) gives the member with that id the name
\* and the email that are supplied with a non-empty value; a field passed as
\* None or as the empty string keeps its value, with both absent the row is
\* unchanged; member_id, the other members, the books and the borrow records
\* are unchanged.
C20_UpdateMemberFrame ==
    [][lastCall'.op = "update_member" =>
          LET id == lastCall'.member_id
              name == report'.arg.name
              email == report'.arg.email
          IN  /\ DOMAIN members' = DOMAIN members
              /\ \A i \in DOMAIN members :
                    /\ members'[i].member_id = members[i].member_id
                    /\ members[i].member_id # id => members'[i] = members[i]
                    /\ members[i].member_id = id =>
                          /\ members'[i].name =
                                IF Supplied(name) THEN name ELSE members[i].name
                          /\ members'[i].email =
                                IF Supplied(email) THEN email ELSE members[i].email
              /\ (~Supplied(name) /\ ~Supplied(email)) => members' = members
              /\ books' = books
              /\ borrow_records' = borrow_records]_vars

\* a new name with an empty email for one of two members, while a book is out
C20_Witness ==
    /\ lastCall.op = "update_member"
    /\ lastCall.result = "data"
    /\ report.arg.name = "Bob"
    /\ report.arg.email = ""
    /\ borrow_records # <<>>
    /\ \E i, j \in DOMAIN members :
          /\ members[i].member_id = lastCall.member_id
          /\ members[i].name = "Bob"
          /\ members[i].email = "ann@lib.org"
          /\ members[j].name = "Ann"

====
